---- MODULE Spec2Model ----
(***************************************************************************)
(* Model of planet_downloader.py: the asset lifecycle (activation, status  *)
(* polling, download), the three retry loops, and the status ledger file   *)
(* planet_status.json.                                                     *)
(*                                                                         *)
(* Representation choices:                                                 *)
(*  - a URL is the sequence of its '/'-separated segments, i.e. the value  *)
(*    of asset_url.split('/');                                             *)
(*  - the asset key f"{scene_id}_{asset_type}" is the pair                 *)
(*    <<scene_id, asset_type>>;                                            *)
(*  - a Python dict is a function whose DOMAIN is its key set;             *)
(*  - a destination file is "absent", "partial" (opened with "wb", body    *)
(*    not completely written) or "complete".                               *)
(***************************************************************************)
EXTENDS Integers, Sequences, FiniteSets, TLC

\* ------------------------------------------------------------------ bounds

\* Number of times the script is run, one run after the other.
MaxRuns == 2

\* Largest number of status polls one wait_for_asset_activation makes before
\* its clock test (time.time() - start_time < timeout) fails.
MaxPolls == 2

\* ------------------------------------------------------- program constants

\* max_retries = 3 in get_asset_activation_status, activate_asset, download_asset
max_retries == 3

\* retry_delay = 2, the initial delay of the same three functions
retry_delay == 2

\* DEFAULT_ASSET_TYPES
DEFAULT_ASSET_TYPES == <<"basic_analytic_8b", "ortho_visual">>

\* The scenes ("features") the search returns.
Features == <<"S1">>

\* main's nested loop: for scene in features: for asset_type in asset_types
WorkItems ==
  [i \in 1..(Len(Features) * Len(DEFAULT_ASSET_TYPES)) |->
     <<Features[((i - 1) \div Len(DEFAULT_ASSET_TYPES)) + 1],
       DEFAULT_ASSET_TYPES[((i - 1) % Len(DEFAULT_ASSET_TYPES)) + 1]>>]

\* asset_key = f"{scene_id}_{asset_type}"
AssetKey(scene_id, asset_type) == <<scene_id, asset_type>>

Keys == {AssetKey(WorkItems[i][1], WorkItems[i][2]) : i \in 1..Len(WorkItems)}

\* ------------------------------------------------------------------- dicts

EmptyDict == [k \in {} |-> TRUE]

\* d[k] = v
DictSet(d, k, v) == [x \in (DOMAIN d) \cup {k} |-> IF x = k THEN v ELSE d[x]]

\* ----------------------------------------------------------------- ledger

\* The content of planet_status.json: no file, a file that is empty or cut
\* short (not JSON), or a JSON document with the two dicts.
NoFile ==
  [state |-> "absent", activated_scenes |-> EmptyDict, downloaded_scenes |-> EmptyDict]

PartialFile ==
  [state |-> "partial", activated_scenes |-> EmptyDict, downloaded_scenes |-> EmptyDict]

\* The value load_status returns for a file that is absent or valid
\* (json.load raises on a partial file: see the callers).
load_status(f) ==
  IF f.state = "valid"
    THEN [activated_scenes |-> f.activated_scenes,
          downloaded_scenes |-> f.downloaded_scenes]
    ELSE [activated_scenes |-> EmptyDict, downloaded_scenes |-> EmptyDict]

\* The file save_status leaves when it runs to its end.
save_status(s) ==
  [state |-> "valid", activated_scenes |-> s.activated_scenes,
   downloaded_scenes |-> s.downloaded_scenes]

\* -------------------------------------------------------------------- URLs

\* The documented shape .../item-types/{item_type}/items/{item_id}/assets/{asset_type}
DocLink(s, t) ==
  <<"https:", "", "api.planet.com", "data", "v1",
    "item-types", "PSScene", "items", s, "assets", t>>

\* A link that has one more path segment between the item id and the type.
NestedLink(s, t) ==
  <<"https:", "", "api.planet.com", "data", "v1",
    "items", s, "assets", "types", t>>

\* An opaque link with fewer than 8 segments.
ShortLink == <<"https:", "", "api.planet.com", "data", "v1", "assets", "token">>

SelfLinks(s, t) == {DocLink(s, t), NestedLink(s, t), ShortLink}

\* asset_key = None
NoKey == <<>>

\* wait_for_asset_activation's key: url_parts[-4] and url_parts[-1]
ExtractKey(url_parts) ==
  IF Len(url_parts) >= 8
    THEN AssetKey(url_parts[Len(url_parts) - 3], url_parts[Len(url_parts)])
    ELSE NoKey

\* ------------------------------------------------------------ retry loops

\* What one attempt of a retrying call meets: the success status, HTTP 429,
\* another status, or a requests.exceptions.RequestException.
Outcomes == {"ok", "r429", "err", "fault"}

\* The download loop also meets a 200 whose body stream breaks part-way.
DownloadOutcomes == Outcomes \cup {"ok_partial"}

\* The locals of a retry loop before its first attempt.  attempt counts the
\* attempts made, sleeps lists the time.sleep arguments in order, file is the
\* destination file (download loop only).
RetryStart(file) ==
  [attempt |-> 0, retry_delay |-> retry_delay, sleeps |-> <<>>,
   result |-> "running", file |-> file]

\* The for loop over range(max_retries) runs out: the statement after it
\* returns None (False).
FinishedMutOneMore(st) ==
  IF st.result = "running" /\ st.attempt > max_retries
    THEN [st EXCEPT !.result = "fail"] ELSE st

Finished(st) ==
  IF st.result = "running" /\ st.attempt >= max_retries
    THEN [st EXCEPT !.result = "fail"] ELSE st

\* One iteration of the for loop of get_asset_activation_status.
StatusStepMutNoDouble(st, o) ==
  Finished(
    CASE o = "ok" -> [st EXCEPT !.attempt = @ + 1, !.result = "ok"]
      [] o = "r429" ->
           [st EXCEPT !.attempt = @ + 1,
                      !.sleeps = Append(@, st.retry_delay)]
      [] OTHER ->
           IF st.attempt < max_retries - 1
             THEN [st EXCEPT !.attempt = @ + 1,
                             !.sleeps = Append(@, st.retry_delay)]
             ELSE [st EXCEPT !.attempt = @ + 1])

StatusStep(st, o) ==
  Finished(
    CASE o = "ok" -> [st EXCEPT !.attempt = @ + 1, !.result = "ok"]
      [] o = "r429" ->
           [st EXCEPT !.attempt = @ + 1,
                      !.sleeps = Append(@, st.retry_delay),
                      !.retry_delay = @ * 2]
      [] OTHER ->
           IF st.attempt < max_retries - 1
             THEN [st EXCEPT !.attempt = @ + 1,
                             !.sleeps = Append(@, st.retry_delay)]
             ELSE [st EXCEPT !.attempt = @ + 1])

\* One iteration of the for loop of activate_asset.
ActivateStepMutDoubleAlways(st, o) ==
  Finished(
    CASE o = "ok" -> [st EXCEPT !.attempt = @ + 1, !.result = "ok"]
      [] o = "r429" ->
           [st EXCEPT !.attempt = @ + 1,
                      !.sleeps = Append(@, st.retry_delay),
                      !.retry_delay = @ * 2]
      [] OTHER ->
           IF st.attempt < max_retries - 1
             THEN [st EXCEPT !.attempt = @ + 1,
                             !.sleeps = Append(@, st.retry_delay),
                             !.retry_delay = @ * 2]
             ELSE [st EXCEPT !.attempt = @ + 1])

ActivateStep(st, o) ==
  Finished(
    CASE o = "ok" -> [st EXCEPT !.attempt = @ + 1, !.result = "ok"]
      [] o = "r429" ->
           [st EXCEPT !.attempt = @ + 1,
                      !.sleeps = Append(@, st.retry_delay),
                      !.retry_delay = @ * 2]
      [] OTHER ->
           IF st.attempt < max_retries - 1
             THEN [st EXCEPT !.attempt = @ + 1,
                             !.sleeps = Append(@, st.retry_delay)]
             ELSE [st EXCEPT !.attempt = @ + 1])

\* One iteration of the for loop of download_asset.  open(output_path, "wb")
\* truncates the destination before the first chunk is written.
DownloadStep(st, o) ==
  Finished(
    CASE o = "ok" ->
           [st EXCEPT !.attempt = @ + 1, !.result = "ok", !.file = "complete"]
      [] o = "r429" ->
           [st EXCEPT !.attempt = @ + 1,
                      !.sleeps = Append(@, st.retry_delay),
                      !.retry_delay = @ * 2]
      [] OTHER ->
           LET f == IF o = "ok_partial" THEN "partial" ELSE st.file IN
           IF st.attempt < max_retries - 1
             THEN [st EXCEPT !.attempt = @ + 1, !.file = f,
                             !.sleeps = Append(@, st.retry_delay),
                             !.retry_delay = @ * 2]
             ELSE [st EXCEPT !.attempt = @ + 1, !.file = f])

RetryFns == {"get_asset_activation_status", "activate_asset", "download_asset"}

Step(fn, st, o) ==
  CASE fn = "get_asset_activation_status" -> StatusStep(st, o)
    [] fn = "activate_asset" -> ActivateStep(st, o)
    [] OTHER -> DownloadStep(st, o)

\* A whole retry loop, the attempts meeting outs[1], outs[2], ... in order.
RECURSIVE RunRetry(_, _, _)
RunRetry(fn, st, outs) ==
  IF st.result # "running" \/ outs = <<>>
    THEN st
    ELSE RunRetry(fn, Step(fn, st, Head(outs)), Tail(outs))

OutcomeSeqs(fn) ==
  [1..max_retries -> IF fn = "download_asset" THEN DownloadOutcomes ELSE Outcomes]

\* --------------------------------------------------- provider responses

\* get_asset_activation_status's return value: None, or the decoded body, which
\* is falsy (an empty object) or a dict with or without "status" and "location".
None == [kind |-> "none", has_status |-> FALSE, status |-> "", has_location |-> FALSE]

StatusBodies ==
  {[kind |-> "falsy", has_status |-> FALSE, status |-> "", has_location |-> FALSE],
   [kind |-> "dict", has_status |-> FALSE, status |-> "", has_location |-> FALSE]}
  \cup [kind : {"dict"}, has_status : {TRUE},
        status : {"activating", "active"}, has_location : BOOLEAN]

\* Python's truth test of the return value: "if not asset_status"
Truthy(r) == r.kind = "dict"

\* get_asset_activation_status(asset_url) when its attempts meet outs and the
\* 200 response carries body.
get_asset_activation_status(outs, body) ==
  IF RunRetry("get_asset_activation_status", RetryStart("absent"), outs).result = "ok"
    THEN body ELSE None

\* Every value get_asset_activation_status can return.
StatusResults ==
  {get_asset_activation_status(outs, body) :
     outs \in OutcomeSeqs("get_asset_activation_status"), body \in StatusBodies}

\* Every way activate_asset can end: the attempts made and the result.
ActivateResults ==
  {RunRetry("activate_asset", RetryStart("absent"), outs) :
     outs \in OutcomeSeqs("activate_asset")}

\* Every way the download loop can end on a destination in state file,
\* tabulated for the three states a destination can be in.
DownloadResultsFrom(file) ==
  {RunRetry("download_asset", RetryStart(file), outs) :
     outs \in OutcomeSeqs("download_asset")}

DownloadResultsTable ==
  [file \in {"absent", "partial", "complete"} |-> DownloadResultsFrom(file)]

DownloadResults(file) == DownloadResultsTable[file]

\* What the asset listing GET of process_scene meets.
ListingOutcomes ==
  {"fault", "bad_status", "bad_json", "no_asset", "no_links", "missing_links", "links"}

\* ------------------------------------------------------------------ state

VARIABLES
  status_file,        \* planet_status.json
  disk,               \* the destination file of each asset key
  pc,                 \* where the script is
  run,                \* runs started so far
  activate_only,      \* args.activate_only of the current run
  idx,                \* main's position in the work items
  successful_assets,  \* main's counter
  status,             \* process_scene's local snapshot of the ledger
  self_link,          \* process_scene's self_link
  polls,              \* status polls made by the current wait
  dl,                 \* the last download_asset call: what it read and did
  posts,              \* activation POST attempts per key, in the current run
  posted_earlier,     \* keys an earlier run issued an activation POST for
  accepted,           \* accepted (202/204) activation POSTs per key, over all runs
  net,                \* kinds of network calls of the current process_scene call
  entry,              \* ledger and disk as the current process_scene call found them
  rets,               \* the values process_scene returned in the current run
  report,             \* the last "Processed x out of y" tally
  completed,          \* keys for which a download_asset call has returned True
  rt,                 \* a retry loop run attempt by attempt (SpecRetry)
  asset_status,       \* wait_for_asset_activation's asset_status: its last poll
  p2                  \* a second process running the script (SpecTwo)

vars ==
  <<status_file, disk, pc, run, activate_only, idx, successful_assets, status,
    self_link, polls, dl, posts, accepted, net, entry, rets, report,
    completed, posted_earlier, rt, asset_status, p2>>

NoCall == [called |-> FALSE, status |-> None, gets |-> 0, ret |-> FALSE,
           before |-> "absent", after |-> "absent"]

NoEntry == [activated |-> FALSE, downloaded |-> FALSE, exists |-> FALSE]

NoReport == <<-1, -1>>

RtIdle == [fn |-> "none", st |-> RetryStart("absent"), seen |-> <<>>]

\* The second process before it starts: where it is, its position in the work
\* items, its snapshot of the ledger, the keys its POST was accepted for.
P2Idle == [pc |-> "idle", idx |-> 1, status |-> load_status(NoFile), accepted |-> {}]

Init ==
  /\ status_file = NoFile
  /\ disk = [k \in Keys |-> "absent"]
  /\ pc = "idle"
  /\ run = 0
  /\ activate_only = FALSE
  /\ idx = 1
  /\ successful_assets = 0
  /\ status = load_status(NoFile)
  /\ self_link = ShortLink
  /\ polls = 0
  /\ dl = NoCall
  /\ posts = [k \in Keys |-> 0]
  /\ posted_earlier = {}
  /\ accepted = [k \in Keys |-> 0]
  /\ net = {}
  /\ entry = NoEntry
  /\ rets = <<>>
  /\ report = NoReport
  /\ completed = {}
  /\ rt = RtIdle
  /\ asset_status = None
  /\ p2 = P2Idle

scene_id == WorkItems[idx][1]
asset_type == WorkItems[idx][2]
asset_key == AssetKey(scene_id, asset_type)

Stopped == pc \in {"idle", "done", "aborted", "killed"}

\* process_scene returns r to main's loop.
Return(r) ==
  /\ pc' = "main_loop"
  /\ idx' = idx + 1
  /\ successful_assets' = IF r THEN successful_assets + 1 ELSE successful_assets
  /\ rets' = Append(rets, r)

\* An exception nobody catches ends the process.
Raise ==
  /\ pc' = "aborted"
  /\ UNCHANGED <<idx, successful_assets, rets>>

\* ------------------------------------------------------------------- main

\* main up to its loop: display_status_summary (load_status), the search.
StartRun ==
  /\ Stopped
  /\ run < MaxRuns
  /\ run' = run + 1
  /\ \E ao \in BOOLEAN : activate_only' = ao
  /\ idx' = 1
  /\ successful_assets' = 0
  /\ rets' = <<>>
  /\ report' = NoReport
  /\ \/ /\ status_file.state = "partial"      \* json.load raises
        /\ pc' = "aborted"
     \/ /\ status_file.state # "partial"
        /\ \E found \in BOOLEAN :             \* "if not features: return"
             pc' = IF found THEN "main_loop" ELSE "done"
  /\ status' = load_status(NoFile)             \* a new process: no locals yet
  /\ self_link' = ShortLink
  /\ polls' = 0
  /\ dl' = NoCall
  /\ net' = {}
  /\ entry' = NoEntry
  /\ posted_earlier' = posted_earlier \cup {k \in Keys : posts[k] > 0}
  /\ posts' = [k \in Keys |-> 0]
  /\ asset_status' = None
  /\ UNCHANGED <<status_file, disk, accepted, completed, rt, p2>>

\* The end of main: the tally and the closing display_status_summary.
Finish ==
  /\ pc = "main_loop"
  /\ idx > Len(WorkItems)
  /\ report' = <<successful_assets, Len(WorkItems)>>
  /\ pc' = "done"
  /\ UNCHANGED <<status_file, disk, run, activate_only, idx, successful_assets,
                 status, self_link, polls, dl, posts, accepted, net, entry,
                 rets,
                 completed, posted_earlier, rt, asset_status, p2>>

\* ---------------------------------------------------------- process_scene

\* process_scene's entry: save_metadata, status = load_status()
ProcessSceneLoad ==
  /\ pc = "main_loop"
  /\ idx <= Len(WorkItems)
  /\ status_file.state # "partial"
  /\ status' = load_status(status_file)
  /\ entry' = [activated |-> asset_key \in DOMAIN status'.activated_scenes,
               downloaded |-> asset_key \in DOMAIN status'.downloaded_scenes,
               exists |-> disk[asset_key] # "absent"]
  /\ net' = {}
  /\ polls' = 0
  /\ dl' = NoCall
  /\ asset_status' = None
  /\ pc' = "list"
  /\ UNCHANGED <<status_file, disk, run, activate_only, idx, successful_assets,
                 self_link, posts, accepted, rets, report,
                 completed, posted_earlier, rt, p2>>

\* The asset listing GET and the checks of its answer.
ListAssets ==
  /\ pc = "list"
  /\ net' = net \cup {"list"}
  /\ \E o \in ListingOutcomes :
       \/ /\ o \in {"fault", "bad_json"}       \* requests.get or .json() raises
          /\ Raise
          /\ UNCHANGED self_link
       \/ /\ o \in {"bad_status", "no_asset", "no_links", "missing_links"}
          /\ Return(FALSE)
          /\ UNCHANGED self_link
       \/ /\ o = "links"
          /\ \E l \in SelfLinks(scene_id, asset_type) : self_link' = l
          /\ pc' = "check_activated"
          /\ UNCHANGED <<idx, successful_assets, rets>>
  /\ UNCHANGED <<status_file, disk, run, activate_only, status, polls, dl,
                 posts, accepted, entry, report,
                 completed, posted_earlier, rt, asset_status, p2>>

\* "if asset_key in status['activated_scenes']"
AlreadyActivatedMutNever(s, k) == FALSE

AlreadyActivated(s, k) == k \in DOMAIN s.activated_scenes

\* "if not activate_only: if not wait_for_asset_activation(...)": where the
\* activation step goes on, with the flag ao.
WaitUnlessActivateOnlyMutAlwaysWait(ao) == "wait"

WaitUnlessActivateOnly(ao) == IF ao THEN "after_activation" ELSE "wait"

CheckActivated ==
  /\ pc = "check_activated"
  /\ pc' = IF AlreadyActivated(status, asset_key)
             THEN WaitUnlessActivateOnly(activate_only)
             ELSE "activate"
  /\ UNCHANGED <<status_file, disk, run, activate_only, idx, successful_assets,
                 status, self_link, polls, dl, posts, accepted, net, entry,
                 rets, report,
                 completed, posted_earlier, rt, asset_status, p2>>

\* activate_asset(activation_link)
ActivateAsset ==
  /\ pc = "activate"
  /\ net' = net \cup {"post"}
  /\ \E st \in ActivateResults :
       /\ posts' = [posts EXCEPT ![asset_key] = @ + st.attempt]
       /\ \/ /\ st.result = "ok"
             /\ accepted' = [accepted EXCEPT ![asset_key] = @ + 1]
             /\ pc' = "save_activating"
             /\ UNCHANGED <<idx, successful_assets, rets>>
          \/ /\ st.result # "ok"
             /\ UNCHANGED accepted
             /\ Return(FALSE)
  /\ UNCHANGED <<status_file, disk, run, activate_only, status, self_link,
                 polls, dl, entry, report,
                 completed, posted_earlier, rt, asset_status, p2>>

\* status["activated_scenes"][asset_key] = "activating"; save_status(status)
SaveActivating ==
  /\ pc = "save_activating"
  /\ status' = [status EXCEPT
                  !.activated_scenes = DictSet(@, asset_key, "activating")]
  /\ status_file' = save_status(status')
  /\ pc' = WaitUnlessActivateOnly(activate_only)
  /\ UNCHANGED <<disk, run, activate_only, idx, successful_assets, self_link,
                 polls, dl, posts, accepted, net, entry, rets, report,
                 completed, posted_earlier, rt, asset_status, p2>>

\* ---------------------------------------------- wait_for_asset_activation

\* What one pass of the while loop does with the answer r of
\* get_asset_activation_status.
WaitPassMutAnyStatus(r) ==
  CASE ~Truthy(r) -> "return False"
    [] ~r.has_status -> "raise"
    [] OTHER -> "return True"

WaitPassMutPollOn(r) ==
  CASE ~Truthy(r) -> "sleep"
    [] ~r.has_status -> "raise"
    [] r.status = "active" -> "return True"
    [] OTHER -> "sleep"

WaitPass(r) ==
  CASE ~Truthy(r) -> "return False"               \* "if not asset_status"
    [] ~r.has_status -> "raise"                   \* KeyError: 'status'
    [] r.status = "active" -> "return True"
    [] OTHER -> "sleep"

\* One pass of the while loop that does not end it by timeout:
\* get_asset_activation_status, then the tests of its answer.
WaitPoll ==
  /\ pc = "wait"
  /\ polls < MaxPolls
  /\ net' = net \cup {"status"}
  /\ \E r \in StatusResults :
       /\ asset_status' = r
       /\ \/ /\ WaitPass(r) = "return False"
             /\ Return(FALSE)
             /\ UNCHANGED polls
          \/ /\ WaitPass(r) = "raise"
             /\ Raise
             /\ UNCHANGED polls
          \/ /\ WaitPass(r) = "return True"
             /\ pc' = "wait_update"
             /\ UNCHANGED <<polls, idx, successful_assets, rets>>
          \/ /\ WaitPass(r) = "sleep"
             /\ polls' = polls + 1                 \* time.sleep(check_interval)
             /\ UNCHANGED <<pc, idx, successful_assets, rets>>
  /\ UNCHANGED <<status_file, disk, run, activate_only, status, self_link, dl,
                 posts, accepted, entry, report,
                 completed, posted_earlier, rt, p2>>

\* The clock test of the while loop fails: every pass sleeps check_interval, so
\* it fails after a bounded number of passes, and not before the first one.
WaitTimeout ==
  /\ pc = "wait"
  /\ polls >= 1
  /\ Return(FALSE)
  /\ UNCHANGED <<status_file, disk, run, activate_only, status, self_link,
                 polls, dl, posts, accepted, net, entry, report,
                 completed, posted_earlier, rt, asset_status, p2>>

\* The ledger update of wait_for_asset_activation once the asset is active:
\* the file it leaves, given the file it finds and the asset URL.
WaitUpdateFileMutNoTest(f, url_parts) ==
  LET k == ExtractKey(url_parts)
      s == load_status(f) IN
  IF k # NoKey
    THEN save_status([s EXCEPT !.activated_scenes = DictSet(@, k, "active")])
    ELSE f

WaitUpdateFile(f, url_parts) ==
  LET k == ExtractKey(url_parts)
      s == load_status(f) IN
  IF k # NoKey /\ k \in DOMAIN s.activated_scenes
    THEN save_status([s EXCEPT !.activated_scenes = DictSet(@, k, "active")])
    ELSE f

WaitUpdate ==
  /\ pc = "wait_update"
  /\ status_file.state # "partial"
  /\ status_file' = WaitUpdateFile(status_file, self_link)
  /\ pc' = "after_activation"
  /\ UNCHANGED <<disk, run, activate_only, idx, successful_assets, status,
                 self_link, polls, dl, posts, accepted, net, entry, rets,
                 report,
                 completed, posted_earlier, rt, asset_status, p2>>

\* ------------------------------------------------ process_scene, continued

\* "asset_key in status['downloaded_scenes'] and os.path.exists(raw_tif_path)"
SkipDownloadMutLedgerOnly(s, k, d) == k \in DOMAIN s.downloaded_scenes

SkipDownload(s, k, d) == k \in DOMAIN s.downloaded_scenes /\ d[k] # "absent"

\* "if activate_only: return True", then the already-downloaded test.
AfterActivation ==
  /\ pc = "after_activation"
  /\ asset_status' = None            \* wait_for_asset_activation's local is gone
  /\ \/ /\ activate_only
        /\ Return(TRUE)
     \/ /\ ~activate_only
        /\ SkipDownload(status, asset_key, disk)
        /\ Return(TRUE)
     \/ /\ ~activate_only
        /\ ~SkipDownload(status, asset_key, disk)
        /\ pc' = "download"
        /\ UNCHANGED <<idx, successful_assets, rets>>
  /\ UNCHANGED <<status_file, disk, run, activate_only, status, self_link,
                 polls, dl, posts, accepted, net, entry, report,
                 completed, posted_earlier, rt, p2>>

\* --------------------------------------------------------- download_asset

\* download_asset's first statement: status = get_asset_activation_status(asset_url)
DownloadFetchStatus ==
  /\ pc = "download"
  /\ net' = net \cup {"status"}
  /\ \E r \in StatusResults :
       dl' = [called |-> TRUE, status |-> r,
              gets |-> 0, ret |-> FALSE, before |-> disk[asset_key],
              after |-> disk[asset_key]]
  /\ pc' = "download_check"
  /\ UNCHANGED <<status_file, disk, run, activate_only, idx, successful_assets,
                 status, self_link, polls, posts, accepted, entry, rets,
                 report,
                 completed, posted_earlier, rt, asset_status, p2>>

\* 'if not status or status["status"] != "active" or "location" not in status',
\* evaluated left to right: "fail" (return False), "raise" (KeyError) or "go".
DownloadCheckMutLocation(r) ==
  IF ~Truthy(r) THEN "fail"
  ELSE IF ~r.has_status THEN "raise"
  ELSE IF r.status # "active" \/ r.has_location THEN "fail"
  ELSE "go"

DownloadCheck(r) ==
  IF ~Truthy(r) THEN "fail"
  ELSE IF ~r.has_status THEN "raise"
  ELSE IF r.status # "active" \/ ~r.has_location THEN "fail"
  ELSE "go"

\* The rest of download_asset: the test of the status, then the download loop.
DownloadStream ==
  /\ pc = "download_check"
  /\ \/ /\ DownloadCheck(dl.status) = "fail"
        /\ Return(FALSE)
        /\ UNCHANGED <<disk, dl, net, completed>>
     \/ /\ DownloadCheck(dl.status) = "raise"
        /\ Raise
        /\ UNCHANGED <<disk, dl, net, completed>>
     \/ /\ DownloadCheck(dl.status) = "go"
        /\ net' = net \cup {"download"}
        /\ \E st \in DownloadResults(disk[asset_key]) :
             /\ disk' = [disk EXCEPT ![asset_key] = st.file]
             /\ completed' = IF st.result = "ok"
                               THEN completed \cup {asset_key} ELSE completed
             /\ dl' = [dl EXCEPT !.gets = st.attempt, !.ret = (st.result = "ok"),
                                 !.after = st.file]
             /\ \/ /\ st.result = "ok"
                   /\ pc' = "mark_downloaded"
                   /\ UNCHANGED <<idx, successful_assets, rets>>
                \/ /\ st.result # "ok"
                   /\ Return(FALSE)
  /\ UNCHANGED <<status_file, run, activate_only, status, self_link, polls,
                 posts, accepted, entry, report, posted_earlier, rt, asset_status, p2>>

\* status["downloaded_scenes"][asset_key] = True; save_status(status); return True
MarkDownloaded ==
  /\ pc = "mark_downloaded"
  /\ status' = [status EXCEPT !.downloaded_scenes = DictSet(@, asset_key, TRUE)]
  /\ status_file' = save_status(status')
  /\ Return(TRUE)
  /\ UNCHANGED <<disk, run, activate_only, self_link, polls, dl, posts,
                 accepted, net, entry, report,
                 completed, posted_earlier, rt, asset_status, p2>>

\* ------------------------------------------------------------ environment

\* Between two runs somebody removes a destination file, which
\* os.path.exists(raw_tif_path) then reports.
RemoveDestination ==
  /\ Stopped
  /\ \E k \in Keys :
       /\ disk[k] # "absent"
       /\ disk' = [disk EXCEPT ![k] = "absent"]
  /\ UNCHANGED <<status_file, pc, run, activate_only, idx, successful_assets,
                 status, self_link, polls, dl, posts, accepted, net, entry,
                 rets, report,
                 completed, posted_earlier, rt, asset_status, p2>>

\* The process is killed at a point where it is not writing the ledger.
Kill ==
  /\ ~Stopped
  /\ pc' = "killed"
  /\ UNCHANGED <<status_file, disk, run, activate_only, idx, successful_assets,
                 status, self_link, polls, dl, posts, accepted, net, entry,
                 rets, report,
                 completed, posted_earlier, rt, asset_status, p2>>

\* The process is killed inside save_status, after open(status_file, "w") has
\* truncated the file and before json.dump has written all of it.
KillInSave ==
  /\ \/ pc \in {"save_activating", "mark_downloaded"}
     \/ /\ pc = "wait_update"
        /\ WaitUpdateFile(status_file, self_link) # status_file
  /\ status_file' = PartialFile
  /\ pc' = "killed"
  /\ UNCHANGED <<disk, run, activate_only, idx, successful_assets, status,
                 self_link, polls, dl, posts, accepted, net, entry, rets,
                 report,
                 completed, posted_earlier, rt, asset_status, p2>>

\* ----------------------------------------------------------- specifications

Next ==
  \/ StartRun
  \/ Finish
  \/ ProcessSceneLoad
  \/ ListAssets
  \/ CheckActivated
  \/ ActivateAsset
  \/ SaveActivating
  \/ WaitPoll
  \/ WaitTimeout
  \/ WaitUpdate
  \/ AfterActivation
  \/ DownloadFetchStatus
  \/ DownloadStream
  \/ MarkDownloaded
  \/ RemoveDestination

\* Runs of the script, one after the other, none of them killed.
Spec == Init /\ [][Next]_vars

\* The same, with the process killed at any point.
NextCrash == Next \/ Kill \/ KillInSave

SpecCrash == Init /\ [][NextCrash]_vars

\* One retrying call starts.
RetryCall ==
  /\ rt.fn = "none"
  /\ \E fn \in RetryFns : rt' = [fn |-> fn, st |-> RetryStart("absent"), seen |-> <<>>]
  /\ UNCHANGED <<status_file, disk, pc, run, activate_only, idx,
                 successful_assets, status, self_link, polls, dl, posts,
                 accepted, net, entry, rets, report,
                 completed, posted_earlier, asset_status, p2>>

\* One attempt of the call.
RetryAttempt ==
  /\ rt.fn # "none"
  /\ rt.st.result = "running"
  /\ \E o \in (IF rt.fn = "download_asset" THEN DownloadOutcomes ELSE Outcomes) :
       rt' = [rt EXCEPT !.st = Step(rt.fn, rt.st, o), !.seen = Append(@, o)]
  /\ UNCHANGED <<status_file, disk, pc, run, activate_only, idx,
                 successful_assets, status, self_link, polls, dl, posts,
                 accepted, net, entry, rets, report,
                 completed, posted_earlier, asset_status, p2>>

NextRetry == RetryCall \/ RetryAttempt

\* The three retry loops, attempt by attempt.
SpecRetry == Init /\ [][NextRetry]_vars

\* ------------------------------------------------------- a second process

\* A second process runs the script with --activate-only on the same
\* planet_status.json while the first one runs; its steps are those of main
\* and process_scene above, on its own locals.
P2Key == AssetKey(WorkItems[p2.idx][1], WorkItems[p2.idx][2])

P2Return == [p2 EXCEPT !.pc = "main_loop", !.idx = @ + 1]

FirstProcess ==
  <<disk, pc, run, activate_only, idx, successful_assets, status, self_link,
    polls, dl, posts, accepted, net, entry, rets, report, completed,
    posted_earlier, rt, asset_status>>

\* main up to its loop.
P2StartRun ==
  /\ p2.pc = "idle"
  /\ status_file.state # "partial"
  /\ p2' = [p2 EXCEPT !.pc = "main_loop"]
  /\ UNCHANGED <<status_file, FirstProcess>>

\* The end of main.
P2Finish ==
  /\ p2.pc = "main_loop"
  /\ p2.idx > Len(WorkItems)
  /\ p2' = [p2 EXCEPT !.pc = "done"]
  /\ UNCHANGED <<status_file, FirstProcess>>

\* process_scene's entry: status = load_status()
P2ProcessSceneLoad ==
  /\ p2.pc = "main_loop"
  /\ p2.idx <= Len(WorkItems)
  /\ status_file.state # "partial"
  /\ p2' = [p2 EXCEPT !.pc = "list", !.status = load_status(status_file)]
  /\ UNCHANGED <<status_file, FirstProcess>>

\* The asset listing GET, the checks of its answer, and the test
\* "if asset_key in status['activated_scenes']" with "if activate_only:
\* return True" behind it.
P2ListAssets ==
  /\ p2.pc = "list"
  /\ \E o \in ListingOutcomes :
       \/ /\ o \in {"fault", "bad_json"}
          /\ p2' = [p2 EXCEPT !.pc = "aborted"]
       \/ /\ o \in {"bad_status", "no_asset", "no_links", "missing_links"}
          /\ p2' = P2Return
       \/ /\ o = "links"
          /\ p2' = IF AlreadyActivated(p2.status, P2Key)
                     THEN P2Return
                     ELSE [p2 EXCEPT !.pc = "activate"]
  /\ UNCHANGED <<status_file, FirstProcess>>

\* activate_asset(activation_link)
P2ActivateAsset ==
  /\ p2.pc = "activate"
  /\ \E st \in ActivateResults :
       p2' = IF st.result = "ok"
               THEN [p2 EXCEPT !.pc = "save_activating",
                               !.accepted = @ \cup {P2Key}]
               ELSE P2Return
  /\ UNCHANGED <<status_file, FirstProcess>>

\* status["activated_scenes"][asset_key] = "activating"; save_status(status);
\* "if activate_only: return True"
P2SaveActivatingMutReload ==
  /\ p2.pc = "save_activating"
  /\ p2' = [P2Return EXCEPT
              !.status.activated_scenes = DictSet(@, P2Key, "activating")]
  /\ status_file' =
       save_status([load_status(status_file) EXCEPT
                      !.activated_scenes = DictSet(@, P2Key, "activating")])
  /\ UNCHANGED FirstProcess

P2SaveActivating ==
  /\ p2.pc = "save_activating"
  /\ p2' = [P2Return EXCEPT
              !.status.activated_scenes = DictSet(@, P2Key, "activating")]
  /\ status_file' = save_status(p2'.status)
  /\ UNCHANGED FirstProcess

\* The first process runs the script once.
StartOnlyRun == run = 0 /\ StartRun

NextTwo ==
  \/ StartOnlyRun
  \/ Finish
  \/ ProcessSceneLoad
  \/ ListAssets
  \/ CheckActivated
  \/ ActivateAsset
  \/ SaveActivating
  \/ WaitPoll
  \/ WaitTimeout
  \/ WaitUpdate
  \/ AfterActivation
  \/ DownloadFetchStatus
  \/ DownloadStream
  \/ MarkDownloaded
  \/ RemoveDestination
  \/ P2StartRun
  \/ P2Finish
  \/ P2ProcessSceneLoad
  \/ P2ListAssets
  \/ P2ActivateAsset
  \/ P2SaveActivating

\* Two processes running the script at the same time on one ledger file.
SpecTwo == Init /\ [][NextTwo]_vars

\* ------------------------------------------------- a well-behaved provider

\* The run numbered MaxRuns is a normal-mode run against a provider that
\* behaves well; the runs before it are any runs of Spec and leave it any
\* ledger and any destination files they can.
GoodRun == run = MaxRuns /\ ~activate_only

\* What a well-behaved provider lets a step of process_scene meet: the
\* listing answers 200 with the links, the POST is accepted at the first
\* attempt, a status GET answers 200 with a "status" field ("active" with a
\* "location", and "active" before the polls run out), the download answers
\* 200 at the first attempt and its stream completes.
WellBehaved ==
  /\ pc = "list" => pc' = "check_activated"
  /\ pc = "activate" =>
       pc' = "save_activating" /\ posts'[asset_key] = posts[asset_key] + 1
  /\ pc = "wait" =>
       /\ pc' \in {"wait", "wait_update"}
       /\ pc' = "wait" => polls' < MaxPolls
       /\ Truthy(asset_status') /\ asset_status'.has_status
       /\ asset_status'.status = "active" => asset_status'.has_location
  /\ pc = "download" =>
       /\ Truthy(dl'.status) /\ dl'.status.has_status
       /\ dl'.status.status = "active" /\ dl'.status.has_location
  /\ pc = "download_check" => dl'.ret /\ dl'.gets = 1

\* A step of a run before the well-behaved one, or the start of that one.
EarlierStep ==
  /\ run < MaxRuns
  /\ Next
  /\ run' = MaxRuns => ~activate_only'

\* A step of the well-behaved run.
GoodStep ==
  /\ GoodRun
  /\ ~Stopped
  /\ Next
  /\ WellBehaved

NextGood == EarlierStep \/ GoodStep

\* Runs of the script that end with a normal-mode run against a well-behaved
\* provider; the script is one thread, every request has a timeout and every
\* sleep ends, so a run that can take a step takes one.
SpecGood == Init /\ [][NextGood]_vars /\ WF_vars(GoodStep)

\* ------------------------------------------------------------------ claims

\* The ledger entry of key k in planet_status.json: "none" when the file or the
\* key is missing.
Persisted(k) ==
  IF status_file.state = "valid" /\ k \in DOMAIN status_file.activated_scenes
    THEN status_file.activated_scenes[k] ELSE "none"

PersistedDownloaded(k) ==
  status_file.state = "valid" /\ k \in DOMAIN status_file.downloaded_scenes

\* The key of the work item process_scene was last called for, once it has
\* returned to main's loop.
last_key == AssetKey(WorkItems[idx - 1][1], WorkItems[idx - 1][2])

InScene ==
  pc \in {"list", "check_activated", "activate", "save_activating", "wait",
          "wait_update", "after_activation", "download", "download_check",
          "mark_downloaded"}

\* C1, as stated: over the runs made, with the ledger file kept between them,
\* at most one activation POST is issued for each asset key: no run issues two,
\* and no run issues one for a key an earlier run issued one for.
C1_AtMostOnePost ==
  \A k \in Keys : posts[k] <= 1 /\ (k \in posted_earlier => posts[k] = 0)

\* C1, amended: over the runs made, with the ledger file kept between them, at
\* most one activation POST is accepted for each asset key and a run issues at
\* most max_retries POST attempts for it; a process_scene call that finds the
\* key in activated_scenes issues no activation POST.
C1_AtMostOneAcceptedPost ==
  /\ \A k \in Keys : accepted[k] <= 1 /\ posts[k] <= 3
  /\ entry.activated => "post" \notin net

\* C1: a second run is past the activation step of a key whose POST the first
\* run had accepted.
C1_Witness ==
  /\ run = 2
  /\ pc \in {"wait", "after_activation"}
  /\ entry.activated
  /\ accepted[asset_key] = 1

\* C2: no step rewrites a persisted "active" to "activating" or removes the key.
C2_ActiveNeverRegresses ==
  [][\A k \in Keys : Persisted(k) = "active" => Persisted(k)' = "active"]_vars

\* C3: a normal-mode process_scene call that finds its key in downloaded_scenes
\* and its destination file on disk makes no network call.
C3_SkippedWithoutNetwork ==
  (InScene /\ ~activate_only /\ entry.downloaded /\ entry.exists) => net = {}

\* C4: at the download step of a normal-mode call, a key marked downloaded whose
\* file is absent goes to download_asset, and the step is skipped (process_scene
\* returns) only when the key is marked and the file exists.
C4_RedownloadWhenFileAbsent ==
  [][(pc = "after_activation" /\ ~activate_only) =>
       /\ (asset_key \in DOMAIN status.downloaded_scenes /\ disk[asset_key] = "absent")
            => pc' = "download"
       /\ pc' = "main_loop"
            => (asset_key \in DOMAIN status.downloaded_scenes
                /\ disk[asset_key] # "absent")]_vars

\* C4: the download step is reached for a key the ledger marks downloaded whose
\* file is gone, and download_asset is entered.
C4_Witness ==
  /\ pc = "download"
  /\ entry.downloaded
  /\ ~entry.exists
  /\ asset_key \in DOMAIN status.downloaded_scenes

\* The cases of C5: no status, a status other than "active", no location.
C5_Case(r) ==
  \/ r.kind = "none"
  \/ r.has_status /\ r.status # "active"
  \/ ~r.has_location

\* C5: once download_asset has tested a re-fetched status that is unavailable,
\* not "active" or without location, it has returned False, has issued no
\* download GET and has left the destination as it was.
C5_NoDownloadUnlessActive ==
  (dl.called /\ pc # "download_check" /\ C5_Case(dl.status)) =>
     /\ pc # "aborted"
     /\ ~dl.ret
     /\ dl.gets = 0
     /\ dl.after = dl.before
     /\ "download" \notin net

All429(seen) == \A i \in 1..Len(seen) : seen[i] = "r429"

\* C6: a retrying call whose every attempt met HTTP 429 has, when it ends, made
\* exactly 3 attempts, slept 2 then 4 seconds between them, doubled its delay
\* after each 429, and reports failure.
C6_RetryCeiling429 ==
  (rt.fn # "none" /\ rt.st.result # "running" /\ All429(rt.seen)) =>
     /\ rt.st.attempt = 3
     /\ rt.st.result = "fail"
     /\ rt.st.sleeps[1] = 2
     /\ rt.st.sleeps[2] = 4
     /\ \A i \in 1..(Len(rt.st.sleeps) - 1) :
          rt.st.sleeps[i + 1] = 2 * rt.st.sleeps[i]
     /\ rt.st.retry_delay = 2 * rt.st.sleeps[Len(rt.st.sleeps)]

\* C6: a call has ended after meeting 429 on every attempt.
C6_Witness ==
  /\ rt.fn = "activate_asset"
  /\ rt.st.result # "running"
  /\ rt.seen = <<"r429", "r429", "r429">>

RECURSIVE CountTrue(_)
CountTrue(bs) ==
  IF bs = <<>> THEN 0 ELSE (IF Head(bs) THEN 1 ELSE 0) + CountTrue(Tail(bs))

\* C7: a run that has started its batch ends only after process_scene has been
\* called for every work item, with the tally of the calls that returned True.
C7_BatchCompletes ==
  (pc \in {"done", "aborted"} /\ net # {}) =>
     /\ Len(rets) = Len(WorkItems)
     /\ report = <<CountTrue(rets), Len(WorkItems)>>

\* C8: for the first work item of the first run (empty ledger), given a self
\* link of the documented shape: the ledger holds "activating" when the wait
\* starts, "active" when the wait has seen the provider report active, and
\* "active" with downloaded = true once the download has succeeded.
C8_FreshItemLifecycle ==
  /\ (run = 1 /\ idx = 1 /\ pc = "wait" /\ ~activate_only)
       => Persisted(asset_key) = "activating"
  /\ (run = 1 /\ idx = 1 /\ pc = "after_activation" /\ ~activate_only
      /\ self_link = DocLink(scene_id, asset_type))
       => Persisted(asset_key) = "active"
  /\ (run = 1 /\ idx = 2 /\ pc = "main_loop" /\ dl.ret
      /\ self_link = DocLink(WorkItems[1][1], WorkItems[1][2]))
       => (Persisted(last_key) = "active" /\ PersistedDownloaded(last_key))

\* C9: a key in the persisted downloaded_scenes has "active" in the persisted
\* activated_scenes, and a download_asset call for it has returned True.
C9_DownloadedOnlyIfActive ==
  \A k \in Keys :
    PersistedDownloaded(k) => (Persisted(k) = "active" /\ k \in completed)

\* C10: whatever the point at which the process is killed, planet_status.json is
\* never left empty or partly written.
C10_LedgerNeverPartial == status_file.state # "partial"

\* C11: a destination file is never left partly written, and download_asset
\* returns True only with the whole body written to the destination.
C11_NoPartialDestination ==
  /\ \A k \in Keys : disk[k] # "partial"
  /\ (dl.called /\ dl.ret) => dl.after = "complete"


\* The value process_scene has just returned to main's loop.
last_ret == rets[Len(rets)]

ActivationStep ==
  {"check_activated", "activate", "save_activating", "after_activation"}

\* C12, as stated: an activate-only call polls no status, requests no
\* download, leaves downloaded_scenes and the asset files alone, and returns
\* True whenever the key was in activated_scenes or the POST was accepted,
\* False when the POST failed.
C12_ActivateOnlyStops ==
  (activate_only /\ pc = "main_loop" /\ Len(rets) > 0) =>
     /\ "status" \notin net /\ "download" \notin net /\ ~dl.called
     /\ (entry.activated \/ accepted[last_key] > 0) => last_ret
     /\ ("post" \in net /\ accepted[last_key] = 0) => ~last_ret

\* C12, amended: the same, the returned value being the one of a call whose
\* asset listing succeeded (a call whose listing fails returns False or
\* raises before the activation step, whatever the ledger holds).
C12_ActivateOnlyAfterListing ==
  /\ [](activate_only =>
          "status" \notin net /\ "download" \notin net /\ ~dl.called)
  /\ [][(activate_only /\ ~Stopped) =>
          /\ disk' = disk
          /\ \A k \in Keys : PersistedDownloaded(k)' = PersistedDownloaded(k)
          /\ pc' \notin {"wait", "wait_update", "download", "download_check",
                         "mark_downloaded"}]_vars
  /\ [][(activate_only /\ pc \in ActivationStep /\ pc' = "main_loop") =>
          /\ last_ret' = (entry.activated \/ accepted'[asset_key] > 0)
          /\ ("post" \in net' /\ accepted'[asset_key] = 0) => ~last_ret'
          /\ last_ret' => pc = "after_activation"]_vars

\* An activate-only call has returned True after its POST was accepted, and
\* the key is "activating" in the ledger file.
C12_Witness ==
  /\ activate_only /\ pc = "main_loop" /\ Len(rets) > 0 /\ last_ret
  /\ "post" \in net /\ ~entry.activated
  /\ Persisted(last_key) = "activating"


Polling == {"wait", "wait_update"}

NoneOk(seen) == \A i \in 1..Len(seen) : seen[i] # "ok"

\* C14: whatever its attempts meet, a retrying call makes at most 3 attempts,
\* makes none after a successful one, reports success exactly when its last
\* attempt succeeded, and reports failure (None, False) exactly when 3
\* attempts have failed.
C14_RetryBounded ==
  rt.fn # "none" =>
     /\ rt.st.attempt = Len(rt.seen)
     /\ rt.st.attempt <= 3
     /\ NoneOk(SubSeq(rt.seen, 1, Len(rt.seen) - 1))
     /\ rt.st.result \in {"running", "ok", "fail"}
     /\ rt.st.result = "ok" <=> (rt.seen # <<>> /\ rt.seen[Len(rt.seen)] = "ok")
     /\ rt.st.result = "fail" <=> (Len(rt.seen) = 3 /\ NoneOk(rt.seen))

\* C14: a download call has ended in failure after a 429, a transport fault
\* and a 500, in this order.
C14_Witness ==
  /\ rt.fn = "download_asset"
  /\ rt.seen = <<"r429", "fault", "err">>
  /\ rt.st.result = "fail"


\* C15, as stated: in a retrying call the first wait is 2 seconds and every
\* wait is twice the one before it, whichever failures came between them.
C15_DelayDoublesEveryFailure ==
  rt.fn # "none" =>
     /\ rt.st.retry_delay >= 2
     /\ rt.st.sleeps # <<>> => rt.st.sleeps[1] = 2
     /\ \A i \in 1..(Len(rt.st.sleeps) - 1) :
          rt.st.sleeps[i + 1] = 2 * rt.st.sleeps[i]

\* The failed attempts among seen after which fn doubles its delay: every 429,
\* and in download_asset every other failure but one of the last attempt.
Doublings(fn, seen) ==
  Cardinality({i \in 1..Len(seen) :
                 \/ seen[i] = "r429"
                 \/ /\ fn = "download_asset"
                    /\ seen[i] \notin {"ok", "r429"}
                    /\ i < max_retries})

\* C15, amended: the delay starts at 2 and is one variable for both branches;
\* it is doubled after every 429 in the three functions and after another
\* failure in download_asset only, and is otherwise left as it is; each wait
\* lasts the delay reached by the failures before it.
C15_DelayDoublesOn429 ==
  rt.fn # "none" =>
     /\ rt.st.retry_delay = 2 * 2^Doublings(rt.fn, rt.seen)
     /\ \A j \in 1..Len(rt.st.sleeps) :
          rt.st.sleeps[j] = 2 * 2^Doublings(rt.fn, SubSeq(rt.seen, 1, j - 1))
     /\ \A j \in 1..(Len(rt.st.sleeps) - 1) :
          rt.st.sleeps[j + 1] >= rt.st.sleeps[j]

\* C15: a status call met a 500, then a 429: it waited 2 seconds twice and
\* doubled its delay once.
C15_Witness ==
  /\ rt.fn = "get_asset_activation_status"
  /\ rt.seen = <<"err", "r429">>
  /\ rt.st.sleeps = <<2, 2>>
  /\ rt.st.retry_delay = 4


\* The runs of Spec in which a wait_for_asset_activation call that can take a
\* step takes one: the script is one thread, every request has a timeout and
\* every sleep ends.
SpecWaitFair == Spec /\ WF_vars(WaitPoll \/ WaitTimeout \/ WaitUpdate)

IsActive(r) == Truthy(r) /\ r.has_status /\ r.status = "active"

\* C16: a wait_for_asset_activation call ends; a poll answered with no result
\* makes it return False at once, a poll answered "active" makes it return
\* True with no further poll, the timeout makes it return False, and it
\* returns True only when its last poll was answered "active".
C16_WaitReturns ==
  /\ [](pc \in Polling => <>(pc \notin Polling))
  /\ [][(WaitPoll /\ ~Truthy(asset_status')) =>
          pc' = "main_loop" /\ ~last_ret' /\ polls' = polls]_vars
  /\ [][(WaitPoll /\ IsActive(asset_status')) => pc' = "wait_update"]_vars
  /\ [][pc = "wait_update" => pc' = "after_activation" /\ net' = net]_vars
  /\ [][WaitTimeout =>
          pc' = "main_loop" /\ ~last_ret' /\ ~IsActive(asset_status)]_vars
  /\ [][(pc \in Polling /\ pc' \notin Polling /\ pc' # "aborted") =>
          IF IsActive(asset_status) THEN pc' = "after_activation"
            ELSE pc' = "main_loop" /\ ~last_ret']_vars

\* C16: a wait has returned False by timeout after MaxPolls polls answered
\* "activating".
C16_Witness ==
  /\ pc = "main_loop" /\ Len(rets) > 0 /\ ~last_ret
  /\ polls = MaxPolls
  /\ Truthy(asset_status) /\ asset_status.status = "activating"


\* C17: no step of wait_for_asset_activation or download_asset changes the
\* ledger file, and when process_scene is about to save, its snapshot holds
\* what the file holds.
C17_OnlyProcessSceneWrites ==
  /\ [][(pc \in Polling \/ pc \in {"download", "download_check"}) =>
          status_file' = status_file]_vars
  /\ [](pc \in {"save_activating", "mark_downloaded"} =>
          status = load_status(status_file))


FirstKey == AssetKey(WorkItems[1][1], WorkItems[1][2])

\* C18: nothing guards the ledger against a second writer: whatever the file
\* holds, a save leaves in it the saving process's own snapshot and nothing
\* else (wait_for_asset_activation's save: what it has just reloaded), and a
\* process issues its POST for every key its own snapshot lacks.
C18_LastWriterWins ==
  /\ [][status_file' # status_file =>
          \/ status_file' = save_status(status') /\ pc # "wait_update"
          \/ status_file' = save_status(p2'.status) /\ p2.pc = "save_activating"
          \/ status_file' = WaitUpdateFile(status_file, self_link)
               /\ pc = "wait_update"]_vars
  /\ [](p2.pc = "activate" => P2Key \notin DOMAIN p2.status.activated_scenes)
  /\ [](pc = "activate" => asset_key \notin DOMAIN status.activated_scenes)

\* C18: both processes had an activation POST accepted for the first key, and
\* the entry the first process persisted for another key is gone from the
\* file: the second process saved over it a snapshot loaded earlier.
C18_Witness ==
  /\ accepted[FirstKey] > 0 /\ FirstKey \in p2.accepted
  /\ \E k \in Keys :
       /\ k # FirstKey
       /\ accepted[k] > 0
       /\ k \in DOMAIN status.activated_scenes
       /\ pc \notin {"activate", "save_activating"}
       /\ Persisted(k) = "none"


Activated(f) == DOMAIN f.activated_scenes

Downloaded(f) == DOMAIN f.downloaded_scenes

\* C19: in runs of one process from an empty ledger, every key of
\* activated_scenes is a work item's key for which a POST was accepted, with
\* value "activating" or "active"; every value of downloaded_scenes is true;
\* no step removes a key from either map; a key enters activated_scenes only
\* by process_scene's save after its POST, never by a step of
\* wait_for_asset_activation.
C19_LedgerWellFormed ==
  /\ [](\A k \in Activated(status_file) :
          /\ k \in Keys
          /\ accepted[k] > 0
          /\ status_file.activated_scenes[k] \in {"activating", "active"})
  /\ [](\A k \in Downloaded(status_file) :
          status_file.downloaded_scenes[k] = TRUE)
  /\ [][/\ Activated(status_file) \subseteq Activated(status_file')
        /\ Downloaded(status_file) \subseteq Downloaded(status_file')]_vars
  /\ [][(pc \in Polling) =>
          Activated(status_file') = Activated(status_file)]_vars
  /\ [][Activated(status_file') # Activated(status_file) =>
          /\ pc = "save_activating"
          /\ "post" \in net
          /\ Activated(status_file') = Activated(status_file) \cup {asset_key}]_vars

\* C19: wait_for_asset_activation has updated the entry of a downloaded key
\* to "active".
C19_Witness ==
  /\ pc = "after_activation"
  /\ Persisted(asset_key) = "active"
  /\ PersistedDownloaded(asset_key)


\* The provider answered a status poll with a status other than "active".
NonActive(r) == Truthy(r) /\ r.has_status /\ r.status # "active"

\* C20: no POST is issued for a key the ledger file holds; and a normal-mode
\* call for such a key whose polls are all answered with a non-active status
\* polls on after each answer, ends only by the timeout, returns False, and
\* neither calls download_asset nor marks the key downloaded.
C20_RecordedKeyNeverReposted ==
  /\ [][\A k \in Keys :
          Persisted(k) # "none" => posts'[k] <= posts[k]]_vars
  /\ [][(WaitPoll /\ NonActive(asset_status')) =>
          pc' = "wait" /\ polls' = polls + 1]_vars
  /\ [][(pc = "wait" /\ pc' # "wait" /\ NonActive(asset_status')) =>
          /\ asset_status' = asset_status
          /\ polls >= 1
          /\ pc' = "main_loop" /\ ~last_ret']_vars
  /\ []((/\ ~activate_only /\ entry.activated
         /\ pc = "main_loop" /\ Len(rets) > 0
         /\ NonActive(asset_status)) =>
          /\ ~last_ret
          /\ "post" \notin net /\ "download" \notin net /\ ~dl.called
          /\ PersistedDownloaded(last_key) = entry.downloaded)

\* C20: a second, normal-mode run found the key in the ledger, issued no POST,
\* polled MaxPolls times with the provider still answering "activating", and
\* counted the item as failed.
C20_Witness ==
  /\ run = 2 /\ ~activate_only /\ entry.activated
  /\ pc = "main_loop" /\ Len(rets) > 0 /\ ~last_ret
  /\ NonActive(asset_status) /\ polls = MaxPolls
  /\ posts[last_key] = 0 /\ ~PersistedDownloaded(last_key)


\* The well-behaved run has ended with every key in downloaded_scenes, every
\* destination file present and the tally total/total.
GoodDone ==
  /\ pc = "done"
  /\ report = <<Len(WorkItems), Len(WorkItems)>>
  /\ \A k \in Keys : PersistedDownloaded(k) /\ disk[k] # "absent"

====
